---- MODULE Spec2Model ----
(***************************************************************************)
(* Model of the MQTT sink of src/sinks/mqtt/sink.rs: MqttConnector         *)
(* (connect, healthcheck) and MqttSink (run, handle_events).               *)
(*                                                                         *)
(* Steps are the segments of the async code between two await points:      *)
(* the code between two awaits runs without interleaving on the single     *)
(* worker task.  The await points are input.peek() (run), the select! of   *)
(* handle_events, client.publish() and client.disconnect().                *)
(*                                                                         *)
(* The rumqttc pair returned by AsyncClient::new(options, cap) is a        *)
(* bounded request channel of capacity cap between the AsyncClient         *)
(* (producer: publish, disconnect) and the EventLoop (consumer: poll).     *)
(* Telemetry (emit!), Transformer::transform and size_of do not influence  *)
(* control flow and are not part of the state.                             *)
(***************************************************************************)
EXTENDS Integers, Sequences, FiniteSets, TLC

\* ---------------------------------------------------------------- bounds
MaxEvents == 3
MaxPollErrs == 1
MaxHealthchecks == 1

\* request-channel capacity handed to AsyncClient::new (1024 in the source,
\* scaled down so that the channel can fill within MaxEvents)
QueueCap == 2

\* ---------------------------------------------------------------- values
Delivered == "Delivered"
Errored == "Errored"

\* an upstream event: whether Template::render_string and Encoder::encode
\* succeed on it (both are deterministic functions of the event)
Events == [renderOk : BOOLEAN, encodeOk : BOOLEAN]

RECURSIVE SeqsUpTo(_)
SeqsUpTo(n) == IF n = 0 THEN {<<>>}
               ELSE SeqsUpTo(n - 1) \cup [1..n -> Events]

VARIABLES
    input,        \* the upstream sequence (fixed during a run)
    cursor,       \* number of events pulled from input by input.next()
    pc,           \* await point of run: "peek", "select", "publish",
                  \*   "disconnect", "done"
    cur,          \* index of the event whose publish call is in flight
    conn,         \* id of the pair owned by run's loop body, 0 when none
    queue,        \* requests in the request channel of pair conn
    connector,    \* MqttConnector fields: options, topic
    runPairs,     \* ids of the pairs connect() returned to run, in order
    hcPairs,      \* ids of the pairs connect() returned to healthcheck
    hcResults,    \* results returned by healthcheck calls
    dropped,      \* ids of pairs that were dropped
    polled,       \* ids of pairs whose EventLoop was polled
    pollErrs,     \* number of transport-poll errors
    failedAt,     \* <<pair, cursor>> at each return of Err(()) by handle_events
    pubErrs,      \* number of publish-call errors
    pubReturns,   \* pubReturns[i]: what client.publish returned for event i
    reports,      \* reports[i]: statuses reported on event i's finalizers
    pulledOn,     \* pulledOn[i]: pair on which event i was pulled, 0 if not
    publishes,    \* publish calls issued, in order
    disconnects,  \* pairs on whose client disconnect() was called, in order
    discResults,  \* results of the disconnect calls that returned
    endedOk,      \* pairs whose handle_events returned Ok(())
    endedErr,     \* pairs whose handle_events returned Err(())
    runResult     \* "none" while run is executing, else its return value

vars == <<input, cursor, pc, cur, conn, queue, connector,
          runPairs, hcPairs, hcResults, dropped, polled, pollErrs, failedAt,
          pubErrs, pubReturns, reports, pulledOn, publishes, disconnects, discResults,
          endedOk, endedErr, runResult>>

N == Len(input)

Init ==
    /\ input \in SeqsUpTo(MaxEvents)
    /\ cursor = 0
    /\ pc = "peek"
    /\ cur = 0
    /\ conn = 0
    /\ queue = 0
    /\ connector = [options |-> "options", topic |-> "template"]
    /\ runPairs = <<>>
    /\ hcPairs = {}
    /\ hcResults = <<>>
    /\ dropped = {}
    /\ polled = {}
    /\ pollErrs = 0
    /\ failedAt = {}
    /\ pubErrs = 0
    /\ pubReturns = [i \in 1..Len(input) |-> "none"]
    /\ reports = [i \in 1..Len(input) |-> <<>>]
    /\ pulledOn = [i \in 1..Len(input) |-> 0]
    /\ publishes = <<>>
    /\ disconnects = <<>>
    /\ discResults = <<>>
    /\ endedOk = {}
    /\ endedErr = {}
    /\ runResult = "none"

\* ------------------------------------------------------------ MqttConnector

\* MqttConnector::connect: a fresh pair bound to a clone of the options,
\* with an empty request channel of capacity QueueCap.  The pairs made for
\* run are numbered 1, 2, ... and those made for healthcheck -1, -2, ...
connect(id) == [id |-> id, options |-> connector.options,
                cap |-> QueueCap, queue |-> 0]

\* healthcheck that polls the EventLoop once before dropping the pair
healthcheck_polls ==
    /\ Len(hcResults) < MaxHealthchecks
    /\ LET pair == connect(-(Len(hcResults) + 1)) IN
         /\ hcPairs' = hcPairs \cup {pair.id}
         /\ dropped' = dropped \cup {pair.id}
         /\ polled' = polled \cup {pair.id}
    /\ hcResults' = Append(hcResults, "Ok")
    /\ UNCHANGED <<input, cursor, pc, cur, conn, queue, connector,
                   runPairs, pollErrs, failedAt, pubErrs, pubReturns, reports,
                   pulledOn, publishes, disconnects, discResults, endedOk,
                   endedErr, runResult>>

\* MqttConnector::healthcheck: no await in its body, so it is one step
healthcheck ==
    /\ Len(hcResults) < MaxHealthchecks
    /\ LET pair == connect(-(Len(hcResults) + 1)) IN
         /\ hcPairs' = hcPairs \cup {pair.id}
         /\ dropped' = dropped \cup {pair.id}
    /\ hcResults' = Append(hcResults, "Ok")
    /\ UNCHANGED <<input, cursor, pc, cur, conn, queue, connector,
                   runPairs, polled, pollErrs, failedAt, pubErrs, pubReturns, reports,
                   pulledOn, publishes, disconnects, discResults, endedOk,
                   endedErr, runResult>>

\* ------------------------------------------------------------ helpers

\* finalizers.update_status(status) on the finalizers taken from event i
update_status(i, status) ==
    [reports EXCEPT ![i] = Append(@, status)]

\* Template::render_string on the connector's topic template
render_string(ev) ==
    IF ev.renderOk THEN [ok |-> TRUE, topic |-> "topic"]
    ELSE [ok |-> FALSE, topic |-> "none"]

\* Encoder::encode
encode(ev) == ev.encodeOk

\* the qos and retain arguments of client.publish
PublishQoS == "ExactlyOnce"
PublishRetain == FALSE

\* DropPair that loses track of the pair without dropping it
DropPair_leaks ==
    /\ dropped' = dropped
    /\ conn' = 0
    /\ queue' = 0

\* end of one iteration of run's while loop after handle_events returned
\* Err(()): client, connection and the gauge token go out of scope
DropPair ==
    /\ dropped' = dropped \cup {conn}
    /\ conn' = 0
    /\ queue' = 0

\* ------------------------------------------------------------ MqttSink::run

\* run_peek_some with the peeked event taken out of the input
run_peek_some_consumes ==
    /\ pc = "peek"
    /\ cursor < N
    /\ LET pair == connect(Len(runPairs) + 1) IN
         /\ conn' = pair.id
         /\ queue' = pair.queue
         /\ runPairs' = Append(runPairs, pair.id)
    /\ cursor' = cursor + 1
    /\ pc' = "select"
    /\ UNCHANGED <<input, cur, connector, hcPairs, hcResults, dropped,
                   polled, pollErrs, failedAt, pubErrs, pubReturns, reports, pulledOn,
                   publishes, disconnects, discResults, endedOk, endedErr,
                   runResult>>

\* input.peek() is Some: connect and enter handle_events' select!
run_peek_some ==
    /\ pc = "peek"
    /\ cursor < N
    /\ LET pair == connect(Len(runPairs) + 1) IN
         /\ conn' = pair.id
         /\ queue' = pair.queue
         /\ runPairs' = Append(runPairs, pair.id)
    /\ pc' = "select"
    /\ UNCHANGED <<input, cursor, cur, connector, hcPairs, hcResults, dropped,
                   polled, pollErrs, failedAt, pubErrs, pubReturns, reports, pulledOn,
                   publishes, disconnects, discResults, endedOk, endedErr,
                   runResult>>

\* run_peek_none of a loop that connects before its first peek
run_peek_none_connects_first ==
    /\ pc = "peek"
    /\ cursor = N
    /\ IF runPairs = <<>>
       THEN /\ LET pair == connect(Len(runPairs) + 1) IN
                 /\ conn' = pair.id
                 /\ queue' = pair.queue
                 /\ runPairs' = Append(runPairs, pair.id)
            /\ pc' = "select"
            /\ UNCHANGED runResult
       ELSE /\ pc' = "done"
            /\ runResult' = "Ok"
            /\ UNCHANGED <<conn, queue, runPairs>>
    /\ UNCHANGED <<input, cursor, cur, connector, hcPairs, hcResults,
                   dropped, polled, pollErrs, failedAt, pubErrs, pubReturns, reports,
                   pulledOn, publishes, disconnects, discResults, endedOk,
                   endedErr>>

\* input.peek() is None: the while loop ends and run returns Ok(())
run_peek_none ==
    /\ pc = "peek"
    /\ cursor = N
    /\ pc' = "done"
    /\ runResult' = "Ok"
    /\ UNCHANGED <<input, cursor, cur, conn, queue, connector,
                   runPairs, hcPairs, hcResults, dropped, polled, pollErrs,
                   failedAt, pubErrs, pubReturns, reports, pulledOn, publishes,
                   disconnects, discResults, endedOk, endedErr>>

\* ------------------------------------------------- MqttSink::handle_events

\* select! branch connection.poll() with Ok(_): the EventLoop handled one
\* network event or forwarded one request of the channel
handle_events_poll_ok ==
    /\ pc = "select"
    /\ polled' = polled \cup {conn}
    /\ \E drain \in BOOLEAN :
         /\ drain => queue > 0
         /\ queue' = IF drain THEN queue - 1 ELSE queue
    /\ UNCHANGED <<input, cursor, pc, cur, conn, connector, runPairs,
                   hcPairs, hcResults, dropped, pollErrs, failedAt, pubErrs, pubReturns,
                   reports, pulledOn, publishes, disconnects, discResults,
                   endedOk, endedErr, runResult>>

\* handle_events_poll_err with run's loop left on the failure
handle_events_poll_err_exits ==
    /\ pc = "select"
    /\ pollErrs < MaxPollErrs
    /\ pollErrs' = pollErrs + 1
    /\ failedAt' = failedAt \cup {<<conn, cursor>>}
    /\ polled' = polled \cup {conn}
    /\ endedErr' = endedErr \cup {conn}
    /\ DropPair
    /\ pc' = "done"
    /\ runResult' = "Ok"
    /\ UNCHANGED <<input, cursor, cur, connector, runPairs, hcPairs,
                   hcResults, pubErrs, pubReturns, reports, pulledOn, publishes,
                   disconnects, discResults, endedOk>>

\* handle_events_poll_err with the disconnect issued on the failure path too
handle_events_poll_err_disconnects ==
    /\ pc = "select"
    /\ pollErrs < MaxPollErrs
    /\ pollErrs' = pollErrs + 1
    /\ failedAt' = failedAt \cup {<<conn, cursor>>}
    /\ polled' = polled \cup {conn}
    /\ endedErr' = endedErr \cup {conn}
    /\ disconnects' = Append(disconnects, conn)
    /\ pc' = "disconnect"
    /\ UNCHANGED <<input, cursor, cur, conn, queue, connector,
                   runPairs, hcPairs, hcResults, dropped, pubErrs, pubReturns, reports,
                   pulledOn, publishes, discResults, endedOk, runResult>>

\* handle_events_poll_err that also fails the event pulled last
handle_events_poll_err_reports ==
    /\ pc = "select"
    /\ pollErrs < MaxPollErrs
    /\ pollErrs' = pollErrs + 1
    /\ failedAt' = failedAt \cup {<<conn, cursor>>}
    /\ polled' = polled \cup {conn}
    /\ endedErr' = endedErr \cup {conn}
    /\ reports' = IF cursor > 0 THEN update_status(cursor, Errored)
                            ELSE reports
    /\ DropPair
    /\ pc' = "peek"
    /\ UNCHANGED <<input, cursor, cur, connector, runPairs, hcPairs,
                   hcResults, pubErrs, pubReturns, pulledOn, publishes,
                   disconnects, discResults, endedOk, runResult>>

\* select! branch connection.poll() with Err(error): return Err(()); run
\* skips the disconnect, drops the pair and peeks again
handle_events_poll_err ==
    /\ pc = "select"
    /\ pollErrs < MaxPollErrs
    /\ pollErrs' = pollErrs + 1
    /\ failedAt' = failedAt \cup {<<conn, cursor>>}
    /\ polled' = polled \cup {conn}
    /\ endedErr' = endedErr \cup {conn}
    /\ DropPair
    /\ pc' = "peek"
    /\ UNCHANGED <<input, cursor, cur, connector, runPairs, hcPairs,
                   hcResults, pubErrs, pubReturns, reports, pulledOn, publishes,
                   disconnects, discResults, endedOk, runResult>>

\* select! branch input.next() with None: break, return Ok(()); run calls
\* client.disconnect() and awaits it
handle_events_next_none ==
    /\ pc = "select"
    /\ cursor = N
    /\ endedOk' = endedOk \cup {conn}
    /\ disconnects' = Append(disconnects, conn)
    /\ pc' = "disconnect"
    /\ UNCHANGED <<input, cursor, cur, conn, queue, connector,
                   runPairs, hcPairs, hcResults, dropped, polled, pollErrs,
                   failedAt, pubErrs, pubReturns, reports, pulledOn, publishes,
                   discResults, endedErr, runResult>>

\* handle_events_render_err with return Err(()) in place of continue
handle_events_render_err_returns ==
    /\ pc = "select"
    /\ cursor < N
    /\ LET i == cursor + 1 IN
         /\ ~render_string(input[i]).ok
         /\ cursor' = i
         /\ pulledOn' = [pulledOn EXCEPT ![i] = conn]
         /\ reports' = update_status(i, Errored)
    /\ endedErr' = endedErr \cup {conn}
    /\ failedAt' = failedAt \cup {<<conn, cursor + 1>>}
    /\ DropPair
    /\ pc' = "peek"
    /\ UNCHANGED <<input, cur, connector, runPairs, hcPairs,
                   hcResults, polled, pollErrs, pubErrs, pubReturns,
                   publishes, disconnects, discResults, endedOk, runResult>>

\* select! branch input.next() with Some(event), render_string fails:
\* update_status(Errored), continue
handle_events_render_err ==
    /\ pc = "select"
    /\ cursor < N
    /\ LET i == cursor + 1 IN
         /\ ~render_string(input[i]).ok
         /\ cursor' = i
         /\ pulledOn' = [pulledOn EXCEPT ![i] = conn]
         /\ reports' = update_status(i, Errored)
    /\ UNCHANGED <<input, pc, cur, conn, queue, connector,
                   runPairs, hcPairs, hcResults, dropped, polled, pollErrs,
                   failedAt, pubErrs, pubReturns, publishes, disconnects, discResults,
                   endedOk, endedErr, runResult>>

\* handle_events_encode_err with the status of the Ok arm
handle_events_encode_err_delivered ==
    /\ pc = "select"
    /\ cursor < N
    /\ LET i == cursor + 1 IN
         /\ render_string(input[i]).ok
         /\ ~encode(input[i])
         /\ cursor' = i
         /\ pulledOn' = [pulledOn EXCEPT ![i] = conn]
         /\ reports' = update_status(i, Delivered)
    /\ UNCHANGED <<input, pc, cur, conn, queue, connector,
                   runPairs, hcPairs, hcResults, dropped, polled, pollErrs,
                   failedAt, pubErrs, pubReturns, publishes, disconnects, discResults,
                   endedOk, endedErr, runResult>>

\* select! branch input.next() with Some(event), render succeeds and encode
\* fails: update_status(Errored), continue
handle_events_encode_err ==
    /\ pc = "select"
    /\ cursor < N
    /\ LET i == cursor + 1 IN
         /\ render_string(input[i]).ok
         /\ ~encode(input[i])
         /\ cursor' = i
         /\ pulledOn' = [pulledOn EXCEPT ![i] = conn]
         /\ reports' = update_status(i, Errored)
    /\ UNCHANGED <<input, pc, cur, conn, queue, connector,
                   runPairs, hcPairs, hcResults, dropped, polled, pollErrs,
                   failedAt, pubErrs, pubReturns, publishes, disconnects, discResults,
                   endedOk, endedErr, runResult>>

\* select! branch input.next() with Some(event), render and encode succeed:
\* client.publish(&topic, qos, retain, message) is called and awaited
handle_events_publish_call ==
    /\ pc = "select"
    /\ cursor < N
    /\ LET i == cursor + 1 IN
         /\ render_string(input[i]).ok
         /\ encode(input[i])
         /\ cursor' = i
         /\ cur' = i
         /\ pulledOn' = [pulledOn EXCEPT ![i] = conn]
         /\ publishes' = Append(publishes,
                [ev |-> i, conn |-> conn,
                 topic |-> render_string(input[i]).topic,
                 qos |-> PublishQoS, retain |-> PublishRetain])
    /\ pc' = "publish"
    /\ UNCHANGED <<input, conn, queue, connector, runPairs,
                   hcPairs, hcResults, dropped, polled, pollErrs, failedAt,
                   pubErrs, pubReturns, reports, disconnects, discResults, endedOk,
                   endedErr, runResult>>

\* client.publish returned Ok(()): the request entered the channel, which
\* needs a free slot; update_status(Delivered), next loop iteration
publish_ok ==
    /\ pc = "publish"
    /\ queue < QueueCap
    /\ queue' = queue + 1
    /\ reports' = update_status(cur, Delivered)
    /\ pubReturns' = [pubReturns EXCEPT ![cur] = "Ok"]
    /\ cur' = 0
    /\ pc' = "select"
    /\ UNCHANGED <<input, cursor, conn, connector, runPairs,
                   hcPairs, hcResults, dropped, polled, pollErrs, failedAt,
                   pubErrs, pulledOn, publishes, disconnects, discResults,
                   endedOk, endedErr, runResult>>

\* publish_err without the update_status(Errored) of the Err arm
publish_err_no_report ==
    /\ pc = "publish"
    /\ pubErrs' = pubErrs + 1
    /\ pubReturns' = [pubReturns EXCEPT ![cur] = "Err"]
    /\ cur' = 0
    /\ endedErr' = endedErr \cup {conn}
    /\ failedAt' = failedAt \cup {<<conn, cursor>>}
    /\ DropPair
    /\ pc' = "peek"
    /\ UNCHANGED <<input, cursor, connector, runPairs, hcPairs,
                   hcResults, polled, pollErrs, pulledOn, reports,
                   publishes, disconnects, discResults, endedOk, runResult>>

\* publish_err with the Err(()) of handle_events propagated out of run
publish_err_escapes ==
    /\ pc = "publish"
    /\ pubErrs' = pubErrs + 1
    /\ pubReturns' = [pubReturns EXCEPT ![cur] = "Err"]
    /\ reports' = update_status(cur, Errored)
    /\ cur' = 0
    /\ endedErr' = endedErr \cup {conn}
    /\ failedAt' = failedAt \cup {<<conn, cursor>>}
    /\ DropPair
    /\ pc' = "done"
    /\ runResult' = "Err"
    /\ UNCHANGED <<input, cursor, connector, runPairs, hcPairs,
                   hcResults, polled, pollErrs, pulledOn,
                   publishes, disconnects, discResults, endedOk>>

\* publish_err with the failed event put back in front of the input
publish_err_requeue ==
    /\ pc = "publish"
    /\ pubErrs < 2
    /\ pubErrs' = pubErrs + 1
    /\ pubReturns' = [pubReturns EXCEPT ![cur] = "Err"]
    /\ reports' = update_status(cur, Errored)
    /\ cursor' = cursor - 1
    /\ cur' = 0
    /\ endedErr' = endedErr \cup {conn}
    /\ failedAt' = failedAt \cup {<<conn, cursor>>}
    /\ DropPair
    /\ pc' = "peek"
    /\ UNCHANGED <<input, connector, runPairs, hcPairs,
                   hcResults, polled, pollErrs, pulledOn,
                   publishes, disconnects, discResults, endedOk, runResult>>

\* client.publish returned Err(error): update_status(Errored),
\* return Err(()); run skips the disconnect, drops the pair and peeks again
publish_err ==
    /\ pc = "publish"
    /\ pubErrs' = pubErrs + 1
    /\ pubReturns' = [pubReturns EXCEPT ![cur] = "Err"]
    /\ reports' = update_status(cur, Errored)
    /\ cur' = 0
    /\ endedErr' = endedErr \cup {conn}
    /\ failedAt' = failedAt \cup {<<conn, cursor>>}
    /\ DropPair
    /\ pc' = "peek"
    /\ UNCHANGED <<input, cursor, connector, runPairs, hcPairs,
                   hcResults, polled, pollErrs, pulledOn,
                   publishes, disconnects, discResults, endedOk, runResult>>

\* client.disconnect() returned Ok(()): the Disconnect request entered the
\* channel, which needs a free slot; the result is discarded (let _ =) and
\* the pair is dropped at the end of the loop body
disconnect_ok ==
    /\ pc = "disconnect"
    /\ queue < QueueCap
    /\ discResults' = Append(discResults, "Ok")
    /\ DropPair
    /\ pc' = "peek"
    /\ UNCHANGED <<input, cursor, cur, connector, runPairs, hcPairs,
                   hcResults, polled, pollErrs, failedAt, pubErrs, pubReturns, reports,
                   pulledOn, publishes, disconnects, endedOk, endedErr,
                   runResult>>

\* client.disconnect() returned Err(_): discarded the same way
disconnect_err ==
    /\ pc = "disconnect"
    /\ discResults' = Append(discResults, "Err")
    /\ DropPair
    /\ pc' = "peek"
    /\ UNCHANGED <<input, cursor, cur, connector, runPairs, hcPairs,
                   hcResults, polled, pollErrs, failedAt, pubErrs, pubReturns, reports,
                   pulledOn, publishes, disconnects, endedOk, endedErr,
                   runResult>>

\* ------------------------------------------------------------ specification

Next ==
    \/ healthcheck
    \/ run_peek_some
    \/ run_peek_none
    \/ handle_events_poll_ok
    \/ handle_events_poll_err
    \/ handle_events_next_none
    \/ handle_events_render_err
    \/ handle_events_encode_err
    \/ handle_events_publish_call
    \/ publish_ok
    \/ publish_err
    \/ disconnect_ok
    \/ disconnect_err

Spec == Init /\ [][Next]_vars

\* The worker task is always eventually scheduled, and select! picks among
\* its ready branches at random, so the input.next() branch is not starved
\* by connection.poll().  Nothing forces the collaborators to fail, and
\* publish/disconnect complete only when the channel has a free slot.
FairSpec ==
    /\ Spec
    /\ WF_vars(run_peek_some)
    /\ WF_vars(run_peek_none)
    /\ WF_vars(handle_events_next_none)
    /\ WF_vars(handle_events_render_err)
    /\ WF_vars(handle_events_encode_err)
    /\ WF_vars(handle_events_publish_call)
    /\ WF_vars(publish_ok)
    /\ WF_vars(disconnect_ok)

\* ------------------------------------------------------------ properties

Range(f) == {f[x] : x \in DOMAIN f}
Pulled(i) == i \in 1..cursor
FailsBeforePublish(i) == ~render_string(input[i]).ok \/ ~encode(input[i])
RunConnects == Len(runPairs)

TypeOK ==
    /\ cursor \in 0..N
    /\ pc \in {"peek", "select", "publish", "disconnect", "done"}
    /\ cur \in 0..N
    /\ conn \in 0..Len(runPairs)
    /\ queue \in 0..QueueCap
    /\ runResult \in {"none", "Ok", "Err"}

\* C1: no event ever has more than one finalizer status report, an event
\* that was not pulled has none, and once run has returned every event
\* pulled from the upstream sequence has exactly one report, Delivered or
\* Errored.
C1_ExactlyOneReport ==
    /\ \A i \in 1..N : Len(reports[i]) <= 1
    /\ \A i \in 1..N : ~Pulled(i) => reports[i] = <<>>
    /\ pc = "done" =>
         \A i \in 1..N : Pulled(i) =>
            /\ Len(reports[i]) = 1
            /\ reports[i][1] \in {Delivered, Errored}

C1_Witness ==
    /\ pc = "done"
    /\ cursor = 3
    /\ pubErrs >= 1
    /\ pollErrs >= 1
    /\ \E i \in 1..N : reports[i] = <<Delivered>>
    /\ \E i \in 1..N : FailsBeforePublish(i) /\ reports[i] = <<Errored>>

\* C2: when handle_events ends with a transport-poll error or a
\* publish-call error on pair c after k events were pulled, pair c is
\* dropped, and if event k+1 exists then eventually a later pair has been
\* created by connect() for run, event k+1 has been pulled on it and its
\* status has been reported.  (Resumed(f) is stable, so "every failure is
\* eventually resumed" is "always eventually all failures are resumed".)
Resumed(f) ==
    LET c == f[1]
        k == f[2]
    IN  /\ c \in dropped
        /\ conn # c
        /\ k < N =>
             /\ pulledOn[k + 1] > c
             /\ pulledOn[k + 1] \in Range(runPairs)
             /\ Len(reports[k + 1]) = 1

AllResumed == \A f \in failedAt : Resumed(f)

C2_Reconnect == [](\A f \in failedAt : f[1] \in dropped) /\ []<>AllResumed

C2_Witness ==
    /\ N >= 2
    /\ reports[1] = <<Delivered>>
    /\ failedAt = {<<runPairs[1], 1>>}
    /\ pollErrs = 1
    /\ pubErrs = 0
    /\ Len(runPairs) = 2
    /\ pulledOn[2] = runPairs[2]
    /\ Len(reports[2]) = 1

\* C3: a render or encode failure on event k appends Errored to the reports
\* of event k and changes no other event's reports, keeps the pair, keeps
\* the worker in the inner loop and creates no pair; and when no
\* transport-poll error occurred between the pull of event k and the pull
\* of event k+1, event k+1 was pulled on the pair event k was pulled on.
C3_FailStep ==
    (cursor' = cursor + 1 /\ FailsBeforePublish(cursor + 1)) =>
        /\ reports' = [reports EXCEPT ![cursor + 1] = <<Errored>>]
        /\ conn' = conn
        /\ conn # 0
        /\ pc' = "select"
        /\ runPairs' = runPairs
        /\ hcPairs' = hcPairs
        /\ dropped' = dropped
        /\ endedErr' = endedErr
        /\ endedOk' = endedOk
        /\ publishes' = publishes

C3_SamePair ==
    \A k \in 1..N :
        (k < N /\ FailsBeforePublish(k) /\ pulledOn[k + 1] # 0
            /\ k \notin {f[2] : f \in failedAt})
        => pulledOn[k + 1] = pulledOn[k]

C3_EventScopedIsolation == [][C3_FailStep]_vars /\ []C3_SamePair

C3_Witness ==
    /\ N = 3
    /\ ~render_string(input[1]).ok
    /\ render_string(input[2]).ok /\ ~encode(input[2])
    /\ reports[1] = <<Errored>>
    /\ reports[2] = <<Errored>>
    /\ pulledOn[3] # 0
    /\ pulledOn[1] = pulledOn[3]
    /\ pulledOn[2] = pulledOn[3]

\* C4: on an empty upstream sequence run never calls connect(), issues no
\* publish and no disconnect, reports no status, and eventually returns
\* Ok(()).
C4_EmptySafe ==
    N = 0 =>
        /\ runPairs = <<>>
        /\ conn = 0
        /\ publishes = <<>>
        /\ disconnects = <<>>
        /\ polled = {}
        /\ pc \in {"peek", "done"}
        /\ runResult \in {"none", "Ok"}
        /\ pc = "done" => runResult = "Ok"

C4_EmptyNoConnect == []C4_EmptySafe /\ ((N = 0) ~> (pc = "done" /\ runResult = "Ok"))

C4_Witness ==
    /\ N = 0
    /\ pc = "done"
    /\ runResult = "Ok"
    /\ hcPairs # {}

\* C5: run returns only from a peek that found the upstream sequence
\* exhausted: whenever run has returned, every upstream event has been
\* pulled, whatever the number of transport-poll and publish-call failures.
C5_ReturnStep ==
    (pc' = "done" /\ pc # "done") => (pc = "peek" /\ cursor = N)

C5_TerminalOnlyOnExhaustion ==
    [](pc = "done" => cursor = N) /\ [][C5_ReturnStep]_vars

C5_Witness ==
    /\ pc = "done"
    /\ N = 3
    /\ pollErrs = MaxPollErrs
    /\ pubErrs >= 1

\* C6: the publish calls are issued in strictly increasing upstream
\* position (so the calls form a subsequence of the upstream sequence, in
\* upstream order, on every pair and across pairs), each for an event whose
\* render and encode succeeded, on the pair the event was pulled on.
C6_PublishOrdering ==
    /\ \A a, b \in 1..Len(publishes) :
          a < b => publishes[a].ev < publishes[b].ev
    /\ \A a \in 1..Len(publishes) :
          /\ publishes[a].ev \in 1..cursor
          /\ ~FailsBeforePublish(publishes[a].ev)
          /\ publishes[a].conn = pulledOn[publishes[a].ev]

C6_Witness ==
    /\ Len(publishes) = 3
    /\ publishes[1].conn = publishes[2].conn
    /\ publishes[2].conn # publishes[3].conn
    /\ reports[1] = <<Delivered>>
    /\ reports[2] = <<Delivered>>

\* C7: disconnect() is called on exactly the pairs whose handle_events
\* returned Ok(()), once each; a pair whose handle_events returned Err(())
\* is dropped with no disconnect call; and whatever disconnect() returns,
\* run goes back to the peek with the pair dropped and has not returned an
\* error.
C7_DisconnectState ==
    /\ Range(disconnects) = endedOk
    /\ Len(disconnects) = Cardinality(endedOk)
    /\ endedErr \cap Range(disconnects) = {}
    /\ endedErr \subseteq dropped
    /\ endedOk \cup endedErr \subseteq Range(runPairs)
    /\ runResult # "Err"

C7_DisconnectReturnStep ==
    (discResults' # discResults) =>
        /\ pc = "disconnect"
        /\ pc' = "peek"
        /\ conn \in dropped'
        /\ runResult' = runResult
        /\ reports' = reports

C7_GracefulCloseOnSuccess ==
    []C7_DisconnectState /\ [][C7_DisconnectReturnStep]_vars

C7_Witness ==
    /\ pc = "done"
    /\ runResult = "Ok"
    /\ discResults = <<"Err">>
    /\ endedErr # {}
    /\ endedOk # {}

\* C8: every publish call uses QoS at-least-once (QoS 1) and retain false.
C8_FixedPublishParameters ==
    \A a \in 1..Len(publishes) :
        /\ publishes[a].qos = "AtLeastOnce"
        /\ publishes[a].retain = FALSE

\* C9: run never returns an error: its result is Ok(()) whenever it has
\* returned, whatever render, encode, publish-call and transport-poll
\* errors occurred.
C9_ErrorsNeverEscape ==
    /\ runResult \in {"none", "Ok"}
    /\ pc = "done" <=> runResult = "Ok"

C9_Witness ==
    /\ pc = "done"
    /\ runResult = "Ok"
    /\ pubErrs >= 1
    /\ pollErrs >= 1
    /\ \E i \in 1..N : ~render_string(input[i]).ok
    /\ \E i \in 1..N : render_string(input[i]).ok /\ ~encode(input[i])

\* C10: a healthcheck call constructs exactly one pair and drops it, polls
\* no EventLoop, issues no publish and no disconnect, returns Ok(()),
\* leaves the connector's options and topic template unchanged and does not
\* touch the state of run; the pairs it constructed are never polled,
\* published on or disconnected.
C10_HealthcheckStep ==
    (hcResults' # hcResults) =>
        /\ hcResults' = Append(hcResults, "Ok")
        /\ Cardinality(hcPairs') = Cardinality(hcPairs) + 1
        /\ hcPairs' \ hcPairs = dropped' \ dropped
        /\ hcPairs \subseteq hcPairs'
        /\ dropped \subseteq dropped'
        /\ connector' = connector
        /\ polled' = polled
        /\ publishes' = publishes
        /\ disconnects' = disconnects
        /\ UNCHANGED <<input, cursor, pc, cur, conn, queue, runPairs,
                       pollErrs, failedAt, pubErrs, pubReturns, reports, pulledOn,
                       discResults, endedOk, endedErr, runResult>>

C10_HealthcheckState ==
    /\ hcPairs \cap polled = {}
    /\ hcPairs \cap Range(disconnects) = {}
    /\ hcPairs \cap Range(runPairs) = {}
    /\ hcPairs \subseteq dropped
    /\ \A a \in 1..Len(publishes) : publishes[a].conn \notin hcPairs
    /\ \A a \in 1..Len(hcResults) : hcResults[a] = "Ok"
    /\ connector = [options |-> "options", topic |-> "template"]

C10_HealthcheckProbe ==
    []C10_HealthcheckState /\ [][C10_HealthcheckStep]_vars

C10_Witness ==
    /\ hcResults = <<"Ok">>
    /\ hcPairs = {-1}
    /\ pc = "publish"
    /\ conn = 1
    /\ polled = {1}

\* C11: an event's reported status is Delivered exactly when its render
\* succeeded, its encode succeeded and client.publish returned Ok(()) for
\* it; it is Errored exactly when its render failed, its encode failed or
\* client.publish returned Err for it.
C11_StatusMatchesOutcome ==
    \A i \in 1..N :
        /\ Delivered \in Range(reports[i]) <=>
              /\ Pulled(i)
              /\ render_string(input[i]).ok
              /\ encode(input[i])
              /\ pubReturns[i] = "Ok"
        /\ Errored \in Range(reports[i]) <=>
              /\ Pulled(i)
              /\ \/ ~render_string(input[i]).ok
                 \/ ~encode(input[i])
                 \/ pubReturns[i] = "Err"

C11_Witness ==
    /\ N = 3
    /\ cursor = 3
    /\ reports[1] = <<Errored>> /\ render_string(input[1]).ok
        /\ ~encode(input[1])
    /\ reports[2] = <<Delivered>> /\ pubReturns[2] = "Ok"
    /\ reports[3] = <<Errored>> /\ pubReturns[3] = "Err"

\* C12: a transport-poll error step reports no status, pulls no event and
\* issues no publish call, and ends handle_events with Err(()); a
\* successful transport-poll step leaves the upstream cursor, the reported
\* statuses and the publish calls unchanged too.
C12_PollErrStep ==
    (pollErrs' # pollErrs) =>
        /\ reports' = reports
        /\ cursor' = cursor
        /\ pulledOn' = pulledOn
        /\ publishes' = publishes
        /\ pubReturns' = pubReturns
        /\ endedErr' = endedErr \cup {conn}
        /\ conn \in dropped'
        /\ pc = "select" /\ pc' = "peek"

C12_PollOkStep ==
    ((polled' # polled \/ queue' < queue) /\ conn' = conn) =>
        /\ reports' = reports
        /\ cursor' = cursor
        /\ pulledOn' = pulledOn
        /\ publishes' = publishes
        /\ pubReturns' = pubReturns
        /\ pc = "select" /\ pc' = "select"

C12_PollFrame == [][C12_PollErrStep /\ C12_PollOkStep]_vars

C12_Witness ==
    /\ pollErrs = 1
    /\ \E f \in failedAt : f[2] = 2 /\ pubErrs = 0 /\ 1 \in polled
    /\ reports[1] = <<Delivered>>
    /\ reports[2] = <<Delivered>>
    /\ Len(publishes) = 2
    /\ pc = "peek"

\* C13: while the worker is not inside a publish call every pulled event
\* has its status reported, and inside a publish call every pulled event
\* but the one being published has; so the status of an event is reported
\* before the next event is pulled, before handle_events returns, before
\* the pair it was pulled on is dropped or disconnected, and before every
\* peek and every connect().
C13_ReportedBeforeProgress ==
    /\ \A i \in 1..N :
          (Pulled(i) /\ ~(pc = "publish" /\ i = cur)) => Len(reports[i]) = 1
    /\ pc = "publish" => (cur = cursor /\ reports[cur] = <<>>)
    /\ pc # "publish" => cur = 0
    /\ \A i \in 1..N :
          (Pulled(i) /\ pulledOn[i] \in dropped \cup Range(disconnects)
                           \cup endedOk \cup endedErr)
          => Len(reports[i]) = 1

C13_Witness ==
    /\ pc = "publish"
    /\ cur = 3
    /\ Len(runPairs) = 3
    /\ pubErrs = 1
    /\ pollErrs = 1
    /\ \A i \in 1..2 : Len(reports[i]) = 1

\* C14: once handle_events has returned Ok(()) the upstream sequence is
\* exhausted, so at most one disconnect is issued over the whole run, no
\* pair is created after it, and run eventually returns.
C14_AfterSuccess ==
    /\ Len(disconnects) <= 1
    /\ endedOk # {} =>
         /\ cursor = N
         /\ pc \in {"disconnect", "peek", "done"}
         /\ runPairs[Len(runPairs)] \in endedOk

C14_NoReconnectAfterSuccess ==
    []C14_AfterSuccess /\ ((endedOk # {}) ~> (pc = "done"))

\* C15: every upstream event is pulled at most once, in order, and on one
\* pair only: the peek that precedes connect() consumes nothing, so the
\* first event pulled on a new pair is the one the peek saw; an event whose
\* render or encode failed is never published, and no event has more than
\* one publish call, also after its publish call failed.
C15_PullStep ==
    /\ cursor' \in {cursor, cursor + 1}
    /\ \A i \in 1..N : pulledOn[i] # 0 => pulledOn'[i] = pulledOn[i]
    /\ \A i \in 1..N : (pulledOn[i] = 0 /\ pulledOn'[i] # 0) =>
          (i = cursor + 1 /\ cursor' = i /\ pulledOn'[i] = conn
             /\ pc = "select")
    /\ runPairs' # runPairs => cursor' = cursor
    /\ \A a \in 1..Len(publishes) :
          Len(publishes') >= a /\ publishes'[a] = publishes[a]

C15_AtMostOnce ==
    /\ \A i \in 1..N : Pulled(i) <=> pulledOn[i] # 0
    /\ \A i \in 1..N :
          Cardinality({a \in 1..Len(publishes) : publishes[a].ev = i})
             <= (IF Pulled(i) /\ ~FailsBeforePublish(i) THEN 1 ELSE 0)
    /\ \A i \in 1..N : pubReturns[i] = "Err" =>
          Cardinality({a \in 1..Len(publishes) : publishes[a].ev = i}) = 1

C15_ProcessedAtMostOnce == [][C15_PullStep]_vars /\ []C15_AtMostOnce

C15_Witness ==
    /\ N = 3
    /\ pc = "done"
    /\ FailsBeforePublish(1)
    /\ pubReturns[2] = "Err"
    /\ pubReturns[3] = "Ok"
    /\ pulledOn[2] = 1
    /\ pulledOn[3] = 2
    /\ Len(publishes) = 2

\* C16: at most one pair is live at any time, and it is the pair run's
\* loop body owns: every pair connect() returned earlier has been dropped
\* when connect() is called again, and every publish call, transport poll
\* and disconnect is issued on the pair of the most recent connect() of run.
LivePairs == (Range(runPairs) \cup hcPairs) \ dropped

LastPair == IF runPairs = <<>> THEN 0 ELSE runPairs[Len(runPairs)]

C16_OneLivePair ==
    /\ Cardinality(LivePairs) <= 1
    /\ LivePairs = IF conn = 0 THEN {} ELSE {conn}
    /\ conn # 0 => conn = LastPair
    /\ pc \in {"select", "publish", "disconnect"} <=> conn # 0

C16_UseStep ==
    /\ runPairs' # runPairs =>
          (LivePairs = {} /\ Range(runPairs) \subseteq dropped)
    /\ publishes' # publishes =>
          (publishes'[Len(publishes')].conn = LastPair /\ LastPair \notin dropped)
    /\ (polled' # polled /\ hcResults' = hcResults) =>
          (polled' = polled \cup {LastPair} /\ LastPair \notin dropped)
    /\ disconnects' # disconnects =>
          (disconnects' = Append(disconnects, LastPair)
             /\ LastPair \notin dropped)
    /\ (queue' # queue /\ conn' = conn) => conn = LastPair

C16_PairLifetime == []C16_OneLivePair /\ [][C16_UseStep]_vars

C16_Witness ==
    /\ Len(runPairs) = 3
    /\ conn = 3
    /\ dropped = {1, 2, -1}
    /\ polled = {1, 2, 3}
    /\ Len(publishes) >= 2
    /\ pc = "disconnect"

\* C17: with a fair worker and a fair select!, a finite upstream sequence
\* and finitely many transport-poll errors, run eventually returns; in
\* particular every publish call eventually returns, also when the request
\* channel is full.  (In a state with pc = "publish" or pc = "disconnect"
\* and queue = QueueCap the worker awaits a free slot; slots are freed only
\* by connection.poll(), which the worker calls only from select!.)
C17_TerminationNoBlock ==
    /\ <>(pc = "done")
    /\ (pc = "publish" /\ queue = QueueCap) ~> (pc # "publish")

\* C18: run calls connect() only in the step that follows a peek that found
\* an unconsumed event; the number of pairs created for run is at most one
\* more than the number of transport-poll and publish-call errors, it is
\* zero on an empty input, and a non-empty input without such an error is
\* served by exactly one pair.
C18_ConnectStep ==
    runPairs' # runPairs =>
        /\ pc = "peek"
        /\ cursor < N
        /\ cursor' = cursor
        /\ runPairs' = Append(runPairs, Len(runPairs) + 1)
        /\ conn' = Len(runPairs) + 1
        /\ pc' = "select"

C18_ConnectCount ==
    /\ Len(runPairs) <= pollErrs + pubErrs + 1
    /\ pollErrs + pubErrs = Cardinality(endedErr)
    /\ N = 0 => runPairs = <<>>
    /\ (N > 0 /\ pollErrs + pubErrs = 0 /\ pc # "peek") => Len(runPairs) = 1
    /\ (pc = "done" /\ N > 0) => Len(runPairs) >= 1

C18_ConnectOnDemand == [][C18_ConnectStep]_vars /\ []C18_ConnectCount

C18_Witness ==
    /\ pc = "done"
    /\ N = 3
    /\ pollErrs + pubErrs = 2
    /\ Len(runPairs) = 3

====
